---- MODULE Spec2Model ----
(***************************************************************************)
(* Model of the SAP date-update robot: the automation module Sap.py (the   *)
(* batch orchestrator main, the per-record transaction alterar_data, the   *)
(* status classifier verificar_erro_sap, the connector conectar_sap, the   *)
(* date normaliser formatar_data) and the part of the desktop shell        *)
(* RoboSAP_GUI.py that starts, wraps and cancels a run (WorkerThread and   *)
(* the Start / Cancel handlers of MainWindow).                             *)
(*                                                                         *)
(* The remote SAP GUI is the environment: every findById may fail, the     *)
(* status bar shows any of a few messages after a round trip, an assigned  *)
(* cell text is accepted or silently ignored, a save commits or not.       *)
(* Python strings are TLA+ strings (the emoji that prefix the log and      *)
(* outcome messages are left out); None is the record None below.          *)
(***************************************************************************)
EXTENDS Integers, Sequences, FiniteSets, TLC

(***************************************************************************)
(* Bounds of the model.                                                    *)
(***************************************************************************)
MaxRows == 2
\* The largest tentativas esperar_objeto is applied with on its own.
MaxPolls == 5

(***************************************************************************)
(* Python values.                                                          *)
(***************************************************************************)
None == [some |-> FALSE, val |-> ""]
Some(v) == [some |-> TRUE, val |-> v]
\* Python truthiness of a str | None value (if erro: ...).
Truthy(x) == x.some /\ x.val # ""

Last(s) == s[Len(s)]

\* One character of a string, as a string of length 1.
Char(s, i) == SubSeq(s, i, i)

IsSpace(c) == c \in {" ", "\t", "\n", "\r"}

RECURSIVE LStrip(_)
LStrip(s) ==
  IF Len(s) = 0 THEN s
  ELSE IF IsSpace(Char(s, 1)) THEN LStrip(SubSeq(s, 2, Len(s)))
  ELSE s

RECURSIVE RStrip(_)
RStrip(s) ==
  IF Len(s) = 0 THEN s
  ELSE IF IsSpace(Char(s, Len(s))) THEN RStrip(SubSeq(s, 1, Len(s) - 1))
  ELSE s

\* str.strip()
Strip(s) == RStrip(LStrip(s))

\* str.lower() on one character: the letters the model's texts contain.
LowerChar(c) ==
  CASE c = "A" -> "a" [] c = "B" -> "b" [] c = "C" -> "c" [] c = "D" -> "d"
    [] c = "E" -> "e" [] c = "F" -> "f" [] c = "G" -> "g" [] c = "H" -> "h"
    [] c = "I" -> "i" [] c = "J" -> "j" [] c = "K" -> "k" [] c = "L" -> "l"
    [] c = "M" -> "m" [] c = "N" -> "n" [] c = "O" -> "o" [] c = "P" -> "p"
    [] c = "Q" -> "q" [] c = "R" -> "r" [] c = "S" -> "s" [] c = "T" -> "t"
    [] c = "U" -> "u" [] c = "V" -> "v" [] c = "W" -> "w" [] c = "X" -> "x"
    [] c = "Y" -> "y" [] c = "Z" -> "z"
    [] c = "Ç" -> "ç" [] c = "Ã" -> "ã" [] c = "Õ" -> "õ" [] c = "Á" -> "á"
    [] c = "É" -> "é" [] c = "Í" -> "í" [] c = "Ó" -> "ó" [] c = "Ú" -> "ú"
    [] c = "Â" -> "â" [] c = "Ê" -> "ê" [] c = "Ô" -> "ô"
    [] OTHER -> c

RECURSIVE Lower(_)
Lower(s) ==
  IF Len(s) = 0 THEN s
  ELSE LowerChar(Char(s, 1)) \o Lower(SubSeq(s, 2, Len(s)))

\* Python's  sub in s  for strings.
Contains(s, sub) ==
  \E i \in 1..(Len(s) - Len(sub) + 1) : SubSeq(s, i, i + Len(sub) - 1) = sub

\* s.find(c) for a one-character c: the first index (1-based), 0 when absent.
IndexOf(s, c) ==
  IF \E i \in 1..Len(s) : Char(s, i) = c
  THEN CHOOSE i \in 1..Len(s) :
         /\ Char(s, i) = c
         /\ \A j \in 1..(i - 1) : Char(s, j) # c
  ELSE 0

IsDigit(c) == c \in {"0", "1", "2", "3", "4", "5", "6", "7", "8", "9"}

DigitVal(c) ==
  CASE c = "0" -> 0 [] c = "1" -> 1 [] c = "2" -> 2 [] c = "3" -> 3
    [] c = "4" -> 4 [] c = "5" -> 5 [] c = "6" -> 6 [] c = "7" -> 7
    [] c = "8" -> 8 [] c = "9" -> 9

AllDigits(s) == Len(s) > 0 /\ \A i \in 1..Len(s) : IsDigit(Char(s, i))

RECURSIVE ParseNat(_)
ParseNat(s) ==
  IF Len(s) = 0 THEN 0
  ELSE 10 * ParseNat(SubSeq(s, 1, Len(s) - 1)) + DigitVal(Char(s, Len(s)))

\* %02d and %04d of strftime.
Pad(n, width) ==
  LET t == ToString(n)
      RECURSIVE Zeros(_)
      Zeros(k) == IF k <= 0 THEN "" ELSE "0" \o Zeros(k - 1)
  IN Zeros(width - Len(t)) \o t

\* verificar_erro_sap with the second phrase of the informational test lost.
verificar_erro_sap_Mutante(bar) ==
  IF ~bar.found THEN None
  ELSE IF bar.MessageType \in {"E", "A"}
    THEN Some("Erro SAP: " \o Strip(bar.Text))
  ELSE IF bar.MessageType = "I" /\ Contains(Lower(Strip(bar.Text)), "sem alteração")
    THEN Some("Informação SAP: " \o Strip(bar.Text))
  ELSE None

\* verificar_erro_sap without its try / except: the failure of the lookup
\* comes back as the text of a blocking message.
verificar_erro_sap_SemExcept(bar) ==
  IF ~bar.found THEN Some("com_error")
  ELSE IF bar.MessageType \in {"E", "A"}
    THEN Some("Erro SAP: " \o Strip(bar.Text))
  ELSE IF bar.MessageType = "I"
          /\ (\/ Contains(Lower(Strip(bar.Text)), "sem alteração")
              \/ Contains(Lower(Strip(bar.Text)), "não foi feita"))
    THEN Some("Informação SAP: " \o Strip(bar.Text))
  ELSE None

(***************************************************************************)
(* verificar_erro_sap: the status classifier.  bar is what the remote      *)
(* answers for wnd[0]/sbar: found = FALSE when locating or reading it      *)
(* raises, else its MessageType and Text.                                  *)
(***************************************************************************)
FrasesSemAlteracao == <<"sem alteração", "não foi feita">>

verificar_erro_sap(bar) ==
  IF ~bar.found THEN None
  ELSE LET message_type == bar.MessageType
           message_text == Strip(bar.Text)
       IN IF message_type \in {"E", "A"}
            THEN Some("Erro SAP: " \o message_text)
          ELSE IF message_type = "W"
            THEN None
          ELSE IF message_type = "I"
            THEN IF \/ Contains(Lower(message_text), FrasesSemAlteracao[1])
                    \/ Contains(Lower(message_text), FrasesSemAlteracao[2])
                   THEN Some("Informação SAP: " \o message_text)
                 ELSE None
          ELSE None

\* The log lines verificar_erro_sap emits (only the warning branch logs).
verificar_erro_sap_log(bar) ==
  IF bar.found /\ bar.MessageType = "W"
    THEN <<"Aviso SAP: " \o Strip(bar.Text)>>
  ELSE <<>>

(***************************************************************************)
(* formatar_data: raw cell value -> dd.mm.yyyy.  A raw value is a record   *)
(* [k, s, d, m, y]: k = "nan" (empty cell), "ts" (pd.Timestamp d/m/y) or   *)
(* "str" (any other value, s = str(valor)).                                *)
(***************************************************************************)
NaN == [k |-> "nan", s |-> "", d |-> 0, m |-> 0, y |-> 0]
Ts(d, m, y) == [k |-> "ts", s |-> "", d |-> d, m |-> m, y |-> y]
Str(s) == [k |-> "str", s |-> s, d |-> 0, m |-> 0, y |-> 0]

NaT == [ok |-> FALSE, d |-> 0, m |-> 0, y |-> 0]
Date(d, m, y) == [ok |-> TRUE, d |-> d, m |-> m, y |-> y]

IsLeap(y) == (y % 4 = 0 /\ y % 100 # 0) \/ y % 400 = 0

DaysIn(m, y) ==
  IF m = 2 THEN (IF IsLeap(y) THEN 29 ELSE 28)
  ELSE IF m \in {4, 6, 9, 11} THEN 30
  ELSE 31

ValidDate(d, m, y) == m \in 1..12 /\ y >= 1 /\ d >= 1 /\ d <= DaysIn(m, y)

\* strftime("%d.%m.%Y")
strftime(dt) == Pad(dt.d, 2) \o "." \o Pad(dt.m, 2) \o "." \o Pad(dt.y, 4)

\* The three fields of a date string around its separator; <<>> if not three.
Split3(s, sep) ==
  LET i == IndexOf(s, sep)
      rest == SubSeq(s, i + 1, Len(s))
      j == IndexOf(rest, sep)
      tail == SubSeq(rest, j + 1, Len(rest))
  IN IF i = 0 \/ j = 0 \/ IndexOf(tail, sep) # 0 THEN <<>>
     ELSE <<SubSeq(s, 1, i - 1), SubSeq(rest, 1, j - 1), tail>>

\* pd.to_datetime(s, dayfirst=True, errors="coerce") on the date shapes the
\* input table holds: year-first (ISO) strings, and a/b/yyyy strings read
\* day first, month first only when day first is no date.
to_datetime(s) ==
  LET sep == IF Contains(s, "/") THEN "/" ELSE "-"
      t == Split3(s, sep)
  IN IF t = <<>> THEN NaT
     ELSE IF ~(AllDigits(t[1]) /\ AllDigits(t[2]) /\ AllDigits(t[3])) THEN NaT
     ELSE LET a == ParseNat(t[1])
              b == ParseNat(t[2])
              c == ParseNat(t[3])
          IN IF Len(t[1]) = 4
               THEN (IF ValidDate(c, b, a) THEN Date(c, b, a) ELSE NaT)
             ELSE IF Len(t[3]) # 4 THEN NaT
             ELSE IF ValidDate(a, b, c) THEN Date(a, b, c)
             ELSE IF ValidDate(b, a, c) THEN Date(b, a, c)
             ELSE NaT

\* formatar_data with the parse of a string without dots lost.
formatar_data_Mutante(valor) ==
  IF valor.k = "nan" THEN ""
  ELSE IF valor.k = "ts" THEN strftime(valor)
  ELSE Strip(valor.s)

formatar_data(valor) ==
  IF valor.k = "nan" THEN ""
  ELSE IF valor.k = "ts" THEN strftime(valor)
  ELSE LET valor_str == Strip(valor.s)
       IN IF Contains(valor_str, ".") THEN valor_str
          ELSE LET data == to_datetime(valor_str)
               IN IF data.ok THEN strftime(data) ELSE valor_str

(***************************************************************************)
(* int(row["Linha"]): the cell of the Linha column is a number or not      *)
(* (empty cell = NaN, text): ok = FALSE is the ValueError.                 *)
(***************************************************************************)
Num(n) == [k |-> "num", v |-> n]
NaoNumero == [k |-> "nan", v |-> 0]

int(cell) ==
  IF cell.k = "num" THEN [ok |-> TRUE, v |-> cell.v]
  ELSE [ok |-> FALSE, v |-> 0]

(***************************************************************************)
(* esperar_objeto: resp[i] is whether the i-th findById succeeds.          *)
(* attempts = number of findById calls made.                               *)
(***************************************************************************)
\* esperar_objeto giving up one poll early.
esperar_objeto_Mutante(resp, tentativas) ==
  IF \E i \in 1..(tentativas - 1) : resp[i]
    THEN [found |-> TRUE,
          attempts |-> CHOOSE i \in 1..(tentativas - 1) :
                         resp[i] /\ \A j \in 1..(i - 1) : ~resp[j]]
  ELSE [found |-> FALSE, attempts |-> tentativas - 1]

esperar_objeto(resp, tentativas) ==
  IF \E i \in 1..tentativas : resp[i]
    THEN [found |-> TRUE,
          attempts |-> CHOOSE i \in 1..tentativas :
                         resp[i] /\ \A j \in 1..(i - 1) : ~resp[j]]
  ELSE [found |-> FALSE, attempts |-> tentativas]

\* The calls esperar_objeto makes, in order, from iteration t of its loop
\* (for tentativa in range(tentativas)): a findById, and after a failed one
\* a sleep of intervalo; the loop is left by the return of the first
\* findById that succeeds, or by the raise after the last iteration.
RECURSIVE esperar_objeto_passos(_, _, _)
esperar_objeto_passos(resp, tentativas, t) ==
  IF t >= tentativas THEN <<"raise">>
  ELSE IF resp[t + 1] THEN <<"findById", "return">>
  ELSE <<"findById", "sleep">> \o esperar_objeto_passos(resp, tentativas, t + 1)

TentativasObjeto == 5

(***************************************************************************)
(* limpar_tela_sap (RESET).  resp is what the remote answers: cancelar[i]  *)
(* is whether the i-th findById(...btn[12]).press() succeeds, navegar is   *)
(* "ok" or the navigation step that raises ("okcd": the command field,     *)
(* "vkey": sendVKey), popup is whether the confirmation button is there.   *)
(* The result is the steps taken, in order, and whether an exception left  *)
(* the function.                                                           *)
(***************************************************************************)
\* range(5)
PressoesCancelar == 5

\* The cancel loop from its i-th iteration: left at the first failure.
RECURSIVE limpar_cancelar(_, _)
limpar_cancelar(cancelar, i) ==
  IF i > PressoesCancelar THEN <<>>
  ELSE IF cancelar[i] THEN <<"cancelar">> \o limpar_cancelar(cancelar, i + 1)
  ELSE <<"cancelar_falhou">>

\* The cancel loop going on after a failure.
RECURSIVE limpar_cancelar_SemBreak(_, _)
limpar_cancelar_SemBreak(cancelar, i) ==
  IF i > PressoesCancelar THEN <<>>
  ELSE (IF cancelar[i] THEN <<"cancelar">> ELSE <<"cancelar_falhou">>)
         \o limpar_cancelar_SemBreak(cancelar, i + 1)

\* limpar_tela_sap with the cancel loop not left at a failure.
limpar_tela_sap_Mutante(resp) ==
  [passos |->
     limpar_cancelar_SemBreak(resp.cancelar, 1)
     \o (IF resp.navegar = "okcd" THEN <<"okcd_falhou", "log">>
         ELSE IF resp.navegar = "vkey" THEN <<"okcd", "vkey_falhou", "log">>
         ELSE <<"okcd", "vkey", "sleep">>
                \o (IF resp.popup THEN <<"popup", "sleep">> ELSE <<"popup_falhou">>)),
   propagou |-> FALSE]

\* Lines 133-151.  A failure of the navigation goes to the outer except,
\* which logs it: the popup is then not tried.
limpar_tela_sap(resp) ==
  [passos |->
     limpar_cancelar(resp.cancelar, 1)
     \o (IF resp.navegar = "okcd" THEN <<"okcd_falhou", "log">>
         ELSE IF resp.navegar = "vkey" THEN <<"okcd", "vkey_falhou", "log">>
         ELSE <<"okcd", "vkey", "sleep">>
                \o (IF resp.popup THEN <<"popup", "sleep">> ELSE <<"popup_falhou">>)),
   propagou |-> FALSE]

Respostas(n) == [1..n -> BOOLEAN]

(***************************************************************************)
(* conectar_sap: resp[i] is whether step i succeeds (GetObject("SAPGUI"),  *)
(* GetScriptingEngine, Children(0) of the application, Children(0) of the  *)
(* connection).  steps = number of steps attempted, log = the failure line *)
(* it logs before its error status ("" when it connects).                  *)
(***************************************************************************)
Status(label, cat) == [label |-> label, cat |-> cat]

\* conectar_sap going on to the later steps after a failed one.
conectar_sap_Mutante(resp) ==
  LET ok == \A i \in 1..4 : resp[i]
  IN [session |-> IF ok THEN "session" ELSE "None",
      steps |-> 4,
      log |-> IF ok THEN "" ELSE "Não foi possível conectar ao SAP: com_error",
      status |-> <<Status("Inicializando SAP", "running"),
                   IF ok THEN Status("Conectado ao SAP", "success")
                   ELSE Status("Erro na conexão SAP", "error")>>]

conectar_sap(resp) ==
  LET ok == \A i \in 1..4 : resp[i]
      steps == IF ok THEN 4
               ELSE CHOOSE i \in 1..4 : ~resp[i] /\ \A j \in 1..(i - 1) : resp[j]
  IN [session |-> IF ok THEN "session" ELSE "None",
      steps |-> steps,
      log |-> IF ok THEN "" ELSE "Não foi possível conectar ao SAP: com_error",
      status |-> <<Status("Inicializando SAP", "running"),
                   IF ok THEN Status("Conectado ao SAP", "success")
                   ELSE Status("Erro na conexão SAP", "error")>>]

(***************************************************************************)
(* The input table and the remote.                                         *)
(***************************************************************************)
Row(pedido, linha, nova) == [Pedido |-> pedido, Linha |-> linha, NovaData |-> nova]

\* The rows a table is made of: a year-first string, a native timestamp, a
\* row whose Linha cell is no number.
Rows ==
  { Row("4500012345", Num(10), Str("2024-03-15")),
    Row("4500012346", Num(20), Ts(15, 3, 2024)),
    Row("4500012345", NaoNumero, Str("15/03/2024")) }

RECURSIVE SeqsUpTo(_, _)
SeqsUpTo(S, n) ==
  IF n = 0 THEN {<<>>}
  ELSE LET shorter == SeqsUpTo(S, n - 1)
       IN shorter \cup {Append(q, x) : q \in {r \in shorter : Len(r) = n - 1}, x \in S}

\* What pd.read_excel can return: a table of at most MaxRows rows.
DfValues == SeqsUpTo(Rows, MaxRows)

\* The order items of the remote: <<order id, key of the line selector>>.
Items == {<<"4500012345", "   1">>, <<"4500012346", "   2">>}
CellTexts == {"10.03.2024", "15.03.2024"}

BarFound(type, text) == [found |-> TRUE, MessageType |-> type, Text |-> text]
BarMissing == [found |-> FALSE, MessageType |-> "", Text |-> ""]

\* What the status bar can show after a round trip of a run.
SbarValues ==
  { BarFound("E", "Pedido inválido"),
    BarFound("I", "Documento sem alteração"),
    BarFound("W", "Data no passado"),
    BarFound("S", "Pedido gravado"),
    BarMissing }

combo_id ==
  "wnd[0]/usr/subSUB0:SAPLMEGUI:0015/subSUB3:SAPLMEVIEWS:1100/subSUB2:SAPLMEVIEWS:1200/subSUB1:SAPLMEGUI:1301/subSUB1:SAPLMEGUI:6000/cmbDYN_6000-LIST"

campo_data ==
  "wnd[0]/usr/subSUB0:SAPLMEGUI:0015/subSUB3:SAPLMEVIEWS:1100/subSUB2:SAPLMEVIEWS:1200/subSUB1:SAPLMEGUI:1301/subSUB2:SAPLMEGUI:1303/tabsITEM_DETAIL/tabpTABIDT5/ssubTABSTRIPCONTROL1SUB:SAPLMEGUI:1320/tblSAPLMEGUITC_1320/ctxtMEPO1320-EEIND[2,0]"

\* str(e) of the exception a failing findById / COM call raises.
com_error == "com_error"

\* str(e) of the exception pd.read_excel raises.
excel_error == "excel_error"

\* The exception esperar_objeto raises (tentativas * intervalo = 5 * 0.5).
ObjetoNaoEncontrado(objeto_id) ==
  "Objeto " \o objeto_id \o " não encontrado após 2.5s."

\* Default of alterar_data's max_tentativas; main never overrides it.
max_tentativas == 2

(***************************************************************************)
(* State.                                                                  *)
(***************************************************************************)
VARIABLES
  pc,            \* where the worker thread is ("idle": no worker started)
  _running,      \* WorkerThread._running
  df,            \* main: the loaded table
  session,       \* main: the session conectar_sap returned
  idx,           \* main: index of the row being processed (0-based)
  resultados,    \* main: the outcome list
  pedido,        \* main / alterar_data: the current row's order id
  linha,         \* main / alterar_data: the current row's line number
  nova_data,     \* main / alterar_data: the current row's normalised date
  tentativa,     \* alterar_data: the attempt number
  erro,          \* alterar_data: the result of its last verificar_erro_sap
  e,             \* alterar_data: the exception being handled
  ret,           \* alterar_data: the returned (status, mensagem)
  cells,         \* remote: the saved date of every order item
  tela,          \* remote: the text of the date cell on screen
  sbar,          \* verificar_erro_sap: the status bar it is classifying
  entrada,       \* a function applied on its own: its arguments
  saida,         \* a function applied on its own: its result
  progressLog,   \* history: the values passed to emit_progress in this run
  statusLog,     \* history: the (text, type) pairs passed to the status signal
  chamadas,      \* history: the (pedido, linha) of every alterar_data call
  iniciadas,     \* history: attempts started for the current record
  trace,         \* history: the steps of the current attempt of alterar_data
  escritas,      \* history: assignments to the date cell for the current record
  salvamentos,   \* history: presses of the save control for the current record
  conexoes,      \* history: steps attempted by each conectar_sap call
  logs_csv,      \* history: the lists handed to salvar_logs_csv
  arquivos,      \* history: the result files written
  arquivo_selecionado,        \* MainWindow: the selected input file, or "None"
  arquivo_excel,              \* WorkerThread: the file it was created with
  arquivo_excel_customizado,  \* Sap: the module-level override of the input file
  arquivo_atual, \* main: the file this run reads ("" before main has chosen it)
  status_text,   \* MainWindow: the status label
  status_dot,    \* MainWindow: the status category shown
  progress_bar,  \* MainWindow: the progress value shown
  start_btn,     \* MainWindow: Start is enabled (browse and clear go with it)
  cancel_btn,    \* MainWindow: Cancel is enabled
  logLog,        \* history: the lines passed to emit_log / log_signal that
                 \* report the failure of the run or of a record, each with
                 \* the number of status events emitted before it
  finalizados    \* history: finished_signal emissions of this run

vars ==
  <<pc, _running, df, session, idx, resultados, pedido, linha, nova_data,
    tentativa, erro, e, ret, cells, tela, sbar, entrada, saida, progressLog,
    statusLog, chamadas, iniciadas, trace, escritas, salvamentos, conexoes, logs_csv, arquivos,
    arquivo_selecionado, arquivo_excel, arquivo_excel_customizado, arquivo_atual,
    status_text, status_dot, progress_bar, start_btn, cancel_btn, logLog, finalizados>>

mainLocals == <<df, session, idx, resultados>>
rowLocals == <<pedido, linha, nova_data>>
alterarLocals == <<tentativa, erro, e, ret>>
remote == <<cells, tela>>
calls == <<chamadas, conexoes, logs_csv, arquivos>>
hist == <<iniciadas, trace, escritas, salvamentos>>
funcao == <<entrada, saida>>
selecao == <<arquivo_selecionado, arquivo_excel, arquivo_excel_customizado, arquivo_atual>>
botoes == <<start_btn, cancel_btn>>
progresso == <<progressLog, progress_bar>>
estado == <<statusLog, status_text, status_dot>>

\* No function is being applied on its own.
SemChamada == [k |-> "nenhuma"]

NoRet == [status |-> "", mensagem |-> ""]

\* The input file a user selects (the default file is ARQUIVO_PADRAO).
ArquivoA == "A.xlsx"
ARQUIVO_PADRAO == "Alterar_pedidos.xlsx"

\* MainWindow._setup_ui: the window as built, and nothing of a run yet.
ShellInit ==
  /\ arquivo_excel = "None"
  /\ arquivo_excel_customizado = "None"
  /\ arquivo_atual = ""
  /\ status_text = "Pronto"
  /\ status_dot = "idle"
  /\ progress_bar = 0
  /\ start_btn = TRUE
  /\ cancel_btn = FALSE
  /\ logLog = <<>>
  /\ finalizados = 0

RunInit ==
  /\ _running = TRUE
  /\ df = <<>>
  /\ session = "None"
  /\ idx = 0
  /\ resultados = <<>>
  /\ pedido = ""
  /\ linha = 0
  /\ nova_data = ""
  /\ tentativa = 0
  /\ erro = None
  /\ e = ""
  /\ ret = NoRet
  /\ tela = ""
  /\ progressLog = <<>>
  /\ statusLog = <<>>
  /\ chamadas = <<>>
  /\ iniciadas = 0
  /\ trace = <<>>
  /\ escritas = 0
  /\ salvamentos = 0
  /\ conexoes = <<>>
  /\ logs_csv = <<>>
  /\ arquivos = <<>>
  /\ entrada = SemChamada
  /\ saida = SemChamada
  /\ ShellInit

Init ==
  /\ pc = "idle"
  /\ arquivo_selecionado \in {"None", ArquivoA}
  /\ cells \in [Items -> CellTexts]
  /\ sbar = BarMissing
  /\ RunInit

\* The process is gone: nothing of the shell, the worker or the run is
\* left, only the remote and the result files written so far.
ProcessoEncerrado ==
  /\ _running' = FALSE
  /\ df' = <<>>
  /\ session' = "None"
  /\ idx' = 0
  /\ resultados' = <<>>
  /\ pedido' = ""
  /\ linha' = 0
  /\ nova_data' = ""
  /\ tentativa' = 0
  /\ erro' = None
  /\ e' = ""
  /\ ret' = NoRet
  /\ progressLog' = <<>>
  /\ statusLog' = <<>>
  /\ chamadas' = <<>>
  /\ iniciadas' = 0
  /\ trace' = <<>>
  /\ escritas' = 0
  /\ salvamentos' = 0
  /\ conexoes' = <<>>
  /\ logs_csv' = <<>>
  /\ arquivo_selecionado' = "None"
  /\ arquivo_excel' = "None"
  /\ arquivo_excel_customizado' = "None"
  /\ arquivo_atual' = ""
  /\ status_text' = "Pronto"
  /\ status_dot' = "idle"
  /\ progress_bar' = 0
  /\ start_btn' = TRUE
  /\ cancel_btn' = FALSE
  /\ logLog' = <<>>
  /\ finalizados' = 0
  /\ UNCHANGED <<remote, arquivos, sbar, funcao>>

\* The isRunning() test lost.
isRunning_Mutante == FALSE

\* self.worker and self.worker.isRunning()
isRunning == pc \notin {"idle", "finished", "aborted", "closed"}

\* emit_progress: progress_signal is connected to atualizar_progresso, which
\* shows the value.  A signal and the slot it is connected to are one step:
\* the shell handles the events of a worker in the order of their emission.
emit_progress(value) ==
  /\ progressLog' = Append(progressLog, value)
  /\ progress_bar' = value

\* Several emit_progress calls in a row.
emit_progress_seq(values) ==
  /\ progressLog' = progressLog \o values
  /\ progress_bar' = Last(values)

\* emit_status: status_signal is connected to atualizar_status, which shows
\* the text and the category.
emit_status(message, status_type) ==
  /\ statusLog' = Append(statusLog, Status(message, status_type))
  /\ status_text' = message
  /\ status_dot' = status_type

\* Several emit_status calls in a row.
emit_status_seq(statuses) ==
  /\ statusLog' = statusLog \o statuses
  /\ status_text' = Last(statuses).label
  /\ status_dot' = Last(statuses).cat

\* A failure line of the log, emitted after antes status events of the run.
Linha(texto, antes) == [texto |-> texto, antes |-> antes]

\* The failure lines never reaching the log.
emit_log_Mutante(linhas) == logLog' = logLog

\* emit_log / log_signal.emit for the failure lines linhas.
emit_log(linhas) == logLog' = logLog \o linhas

\* MainWindow.execucao_finalizada, lines 660-665 (then the closing dialog).
execucao_finalizada ==
  /\ cancel_btn' = FALSE
  /\ start_btn' = TRUE

(***************************************************************************)
(* The shell: Start and Cancel, and the worker thread around Sap.main.     *)
(***************************************************************************)
\* Sap.set_arquivo_excel
set_arquivo_excel(caminho_arquivo) == arquivo_excel_customizado' = caminho_arquivo

\* Sap.get_arquivo_excel
get_arquivo_excel ==
  IF arquivo_excel_customizado # "None" THEN arquivo_excel_customizado
  ELSE ARQUIVO_PADRAO

\* Lines 601-619: the window is reset, a WorkerThread is created with the
\* selected file and started.  The histories restart with the run.
IniciarWorker ==
  /\ pc' = "thread"
  /\ progress_bar' = 0
  /\ status_dot' = "running"
  /\ status_text' = "Iniciando"
  /\ arquivo_excel' = arquivo_selecionado
  /\ arquivo_atual' = ""
  /\ start_btn' = FALSE
  /\ cancel_btn' = TRUE
  /\ logLog' = <<>>
  /\ finalizados' = 0
  /\ UNCHANGED <<arquivo_selecionado, arquivo_excel_customizado>>
  /\ _running' = TRUE
  /\ df' = <<>>
  /\ session' = "None"
  /\ idx' = 0
  /\ resultados' = <<>>
  /\ pedido' = ""
  /\ linha' = 0
  /\ nova_data' = ""
  /\ tentativa' = 0
  /\ erro' = None
  /\ e' = ""
  /\ ret' = NoRet
  /\ progressLog' = <<>>
  /\ statusLog' = <<>>
  /\ chamadas' = <<>>
  /\ iniciadas' = 0
  /\ trace' = <<>>
  /\ escritas' = 0
  /\ salvamentos' = 0
  /\ conexoes' = <<>>
  /\ logs_csv' = <<>>
  /\ arquivos' = <<>>
  /\ UNCHANGED <<remote, sbar, funcao>>

\* MainWindow.iniciar_execucao: nothing happens while a worker is running,
\* or when the selected file does not exist (a warning is shown).
iniciar_execucao ==
  /\ ~isRunning
  /\ pc \notin {"aborted", "closed"}
  /\ \E existe \in BOOLEAN :
       IF arquivo_selecionado # "None" /\ ~existe
         THEN UNCHANGED vars
       ELSE IniciarWorker

\* MainWindow.selecionar_arquivo: the dialog returns a file or nothing.  The
\* browse button is enabled and disabled together with start_btn.
selecionar_arquivo ==
  /\ pc \notin {"aborted", "closed"}
  /\ start_btn
  /\ \E arquivo \in {"", ArquivoA} :
       IF arquivo # ""
         THEN arquivo_selecionado' = arquivo
       ELSE UNCHANGED arquivo_selecionado
  /\ UNCHANGED <<pc, sbar, funcao, arquivo_excel, arquivo_excel_customizado,
                 arquivo_atual, botoes, logLog, finalizados, _running, mainLocals,
                 rowLocals, alterarLocals, remote, progresso, estado, hist, calls>>

\* MainWindow.limpar_arquivo: the clear button is visible with a file
\* selected, and enabled together with start_btn.
limpar_arquivo ==
  /\ pc \notin {"aborted", "closed"}
  /\ start_btn
  /\ arquivo_selecionado # "None"
  /\ arquivo_selecionado' = "None"
  /\ UNCHANGED <<pc, sbar, funcao, arquivo_excel, arquivo_excel_customizado,
                 arquivo_atual, botoes, logLog, finalizados, _running, mainLocals,
                 rowLocals, alterarLocals, remote, progresso, estado, hist, calls>>

\* MainWindow.cancelar_execucao -> WorkerThread.stop: _running is cleared,
\* then Sap.sinalizar_parada() is called, which Sap.py does not define: the
\* AttributeError leaves the handler before quit() and wait().  What an
\* exception escaping a slot does to the process is the binding's choice
\* (abort, or report and go on): both are possible here.  Nothing writes
\* Sap._cancelamento_solicitado.
cancelar_execucao ==
  /\ isRunning
  /\ \E abort \in BOOLEAN :
       IF abort
         THEN /\ pc' = "aborted"
              /\ ProcessoEncerrado
       ELSE /\ _running' = FALSE
            /\ UNCHANGED <<pc, sbar, funcao, selecao, botoes, logLog, finalizados, mainLocals, rowLocals, alterarLocals,
                           remote, progresso, estado, hist, calls>>

\* MainWindow.closeEvent.  With a worker running the user is asked: on No
\* the event is ignored; on Yes WorkerThread.stop is called, whose
\* AttributeError leaves the handler before quit() and wait(3000): the
\* process aborts, or the event (accepted by default) closes the window and
\* the application ends with the worker still running.  With no worker
\* running the window closes.
closeEvent ==
  /\ pc \notin {"aborted", "closed"}
  /\ IF isRunning
       THEN \E reply \in {"Yes", "No"} :
              IF reply = "Yes"
                THEN /\ pc' = "aborted"
                     /\ ProcessoEncerrado
              ELSE UNCHANGED vars
     ELSE /\ pc' = "closed"
          /\ ProcessoEncerrado

\* WorkerThread.run up to the call of Sap.main: the callbacks are set, and
\* the file too when the worker was given one.
WorkerRun ==
  /\ pc = "thread"
  /\ IF arquivo_excel # "None"
       THEN set_arquivo_excel(arquivo_excel)
     ELSE UNCHANGED arquivo_excel_customizado
  /\ pc' = "main"
  /\ UNCHANGED <<sbar, funcao, arquivo_selecionado, arquivo_excel, arquivo_atual,
                 botoes, logLog, finalizados, _running, mainLocals, rowLocals, alterarLocals, remote,
                 progresso, estado, hist, calls>>

\* finished_signal.emit (line 263), connected to execucao_finalizada.
emit_finished ==
  /\ finalizados' = finalizados + 1
  /\ execucao_finalizada

\* WorkerThread.run after Sap.main returned.
WorkerAposMain ==
  /\ pc = "main_returned"
  /\ IF _running
       THEN emit_status("Concluído com sucesso", "success")
     ELSE UNCHANGED estado
  /\ emit_finished
  /\ pc' = "finished"
  /\ UNCHANGED <<sbar, funcao, selecao, logLog, _running, mainLocals, rowLocals,
                 alterarLocals, remote, progresso, hist, calls>>

\* WorkerErroCritico with the run ending in the handler.
WorkerErroCritico_Mutante ==
  /\ pc = "raised"
  /\ emit_log(<<Linha("Erro crítico: "
                        \o (IF logs_csv # <<>> THEN "OSError" ELSE "ValueError"),
                      Len(statusLog))>>)
  /\ emit_status("Erro crítico", "error")
  /\ pc' = "crashed"
  /\ UNCHANGED <<sbar, funcao, selecao, botoes, finalizados, _running, mainLocals,
                 rowLocals, alterarLocals, remote, progresso, hist, calls>>

\* WorkerThread.run when Sap.main raised (lines 256-263): the exception of
\* int(row["Linha"]) or of salvar_logs_csv is logged, then the status.
WorkerErroCritico ==
  /\ pc = "raised"
  /\ emit_log(<<Linha("Erro crítico: "
                        \o (IF logs_csv # <<>> THEN "OSError" ELSE "ValueError"),
                      Len(statusLog))>>)
  /\ emit_status("Erro crítico", "error")
  /\ emit_finished
  /\ pc' = "finished"
  /\ UNCHANGED <<sbar, funcao, selecao, _running, mainLocals, rowLocals,
                 alterarLocals, remote, progresso, hist, calls>>

(***************************************************************************)
(* Sap.main.                                                               *)
(***************************************************************************)
\* Lines 335-347: the file to read is chosen, the run announced, then the
\* existence check of the file.
MainInicio ==
  /\ pc = "main"
  /\ arquivo_atual' = get_arquivo_excel
  /\ emit_progress(5)
  /\ \E exists \in BOOLEAN :
       IF exists
         THEN /\ emit_status("Carregando dados", "running")
              /\ pc' = "load"
              /\ UNCHANGED logLog
       ELSE /\ emit_log(<<Linha("Arquivo " \o get_arquivo_excel \o " não encontrado.",
                                Len(statusLog) + 1)>>)
            /\ emit_status_seq(<<Status("Carregando dados", "running"),
                                 Status("Arquivo não encontrado", "error")>>)
            /\ pc' = "main_returned"
  /\ UNCHANGED <<sbar, funcao, arquivo_selecionado, arquivo_excel,
                 arquivo_excel_customizado, botoes, finalizados, _running, mainLocals,
                 rowLocals, alterarLocals, remote, hist, calls>>

\* MainCarregar with the return after a failed read lost.
MainCarregar_Mutante ==
  /\ pc = "load"
  /\ \/ \E d \in DfValues :
          /\ df' = d
          /\ emit_progress(10)
          /\ pc' = "connect"
          /\ UNCHANGED <<estado, logLog>>
     \/ /\ emit_log(<<Linha("Erro ao ler Excel: " \o excel_error, Len(statusLog))>>)
        /\ emit_status("Erro no Excel", "error")
        /\ pc' = "connect"
        /\ UNCHANGED <<df, progresso>>
  /\ UNCHANGED <<sbar, funcao, selecao, botoes, finalizados, _running, session, idx, resultados, rowLocals,
                 alterarLocals, remote, hist, calls>>

\* Lines 349-359: pd.read_excel returns a table or raises.
MainCarregar ==
  /\ pc = "load"
  /\ \/ \E d \in DfValues :
          /\ df' = d
          /\ emit_progress(10)
          /\ pc' = "connect"
          /\ UNCHANGED <<estado, logLog>>
     \/ /\ emit_log(<<Linha("Erro ao ler Excel: " \o excel_error, Len(statusLog))>>)
        /\ emit_status("Erro no Excel", "error")
        /\ pc' = "main_returned"
        /\ UNCHANGED <<df, progresso>>
  /\ UNCHANGED <<sbar, funcao, selecao, botoes, finalizados, _running, session, idx, resultados, rowLocals, alterarLocals,
                 remote, hist, calls>>

\* Lines 361-373: conectar_sap, and the loop's initialisation.
MainConectar ==
  /\ pc = "connect"
  /\ \E resp \in Respostas(4) :
       LET r == conectar_sap(resp)
       IN /\ conexoes' = Append(conexoes, r.steps)
          /\ session' = r.session
          /\ IF r.session = "None"
               THEN /\ emit_log(<<Linha(r.log, Len(statusLog) + 1),
                                  Linha("Não foi possível conectar ao SAP. Encerrando.",
                                        Len(statusLog) + 2)>>)
                    /\ emit_status_seq(r.status \o <<Status("Falha na conexão", "error")>>)
                    /\ emit_progress(15)
                    /\ pc' = "main_returned"
             ELSE /\ emit_status_seq(r.status
                                     \o <<Status("Processando pedidos", "running")>>)
                  /\ emit_progress_seq(<<15, 25>>)
                  /\ pc' = "loop"
                  /\ UNCHANGED logLog
  /\ UNCHANGED <<sbar, funcao, selecao, botoes, finalizados, _running, df, idx, resultados, rowLocals, alterarLocals,
                 remote, hist, chamadas, logs_csv, arquivos>>

\* The loop's progress computed from the row count instead of the index.
progress_atual_Mutante(i, total_registros) ==
  25 + (((i + 1) * 65) \div total_registros)

\* progress_atual = 25 + int((idx / total_registros) * 65)
progress_atual(i, total_registros) == 25 + ((i * 65) \div total_registros)

\* Lines 375-389: the head of the loop for the next row, up to the call of
\* alterar_data; int(row["Linha"]) raises out of main when the cell is no
\* number.  After the last row the loop ends.
MainProximo ==
  /\ pc = "loop"
  /\ IF idx < Len(df)
       THEN LET row == df[idx + 1]
                linha_int == int(row.Linha)
            IN /\ emit_progress(progress_atual(idx, Len(df)))
               /\ pedido' = row.Pedido
               /\ IF linha_int.ok
                    THEN /\ linha' = linha_int.v
                         /\ nova_data' = formatar_data(row.NovaData)
                         /\ emit_status("Processando pedido " \o row.Pedido, "running")
                         /\ chamadas' = Append(chamadas, <<row.Pedido, linha_int.v>>)
                         /\ tentativa' = 1
                         /\ iniciadas' = 0
                         /\ trace' = <<>>
                         /\ escritas' = 0
                         /\ salvamentos' = 0
                         /\ pc' = "attempt"
                  ELSE /\ pc' = "raised"
                       /\ UNCHANGED <<linha, nova_data, estado, chamadas,
                                      tentativa, hist>>
     ELSE /\ pc' = "finalize"
          /\ UNCHANGED <<rowLocals, progresso, estado, chamadas, tentativa,
                         hist>>
  /\ UNCHANGED <<sbar, funcao, selecao, botoes, logLog, finalizados, _running, mainLocals, erro, e, ret, remote, conexoes, logs_csv,
                 arquivos>>

\* MainRegistrar with the outcome stored in place of the list.
MainRegistrar_Mutante ==
  /\ pc = "returned"
  /\ resultados' = <<[Pedido |-> pedido, Linha |-> linha,
                      NovaData |-> nova_data, Status |-> ret.status,
                      Mensagem |-> ret.mensagem]>>
  /\ idx' = idx + 1
  /\ tentativa' = 0
  /\ erro' = None
  /\ iniciadas' = 0
  /\ trace' = <<>>
  /\ escritas' = 0
  /\ salvamentos' = 0
  /\ pc' = "loop"
  /\ UNCHANGED <<sbar, funcao, selecao, botoes, logLog, finalizados, _running, df, session, rowLocals, e, ret, remote,
                 progresso, estado, calls>>

\* Lines 389-398: alterar_data has returned (its locals are gone, and the
\* histories of the record end with it) and the outcome of the row is
\* appended.
MainRegistrar ==
  /\ pc = "returned"
  /\ resultados' = Append(resultados,
                          [Pedido |-> pedido, Linha |-> linha,
                           NovaData |-> nova_data, Status |-> ret.status,
                           Mensagem |-> ret.mensagem])
  /\ idx' = idx + 1
  /\ tentativa' = 0
  /\ erro' = None
  /\ iniciadas' = 0
  /\ trace' = <<>>
  /\ escritas' = 0
  /\ salvamentos' = 0
  /\ pc' = "loop"
  /\ UNCHANGED <<sbar, funcao, selecao, botoes, logLog, finalizados, _running, df, session, rowLocals, e, ret, remote,
                 progresso, estado, calls>>

\* Lines 400-405: salvar_logs_csv is handed the outcome list; writing the
\* file can fail (the log folder is a network share), and then main raises.
MainSalvarLogs ==
  /\ pc = "finalize"
  /\ emit_progress(95)
  /\ emit_status("Salvando logs", "running")
  /\ logs_csv' = Append(logs_csv, resultados)
  /\ \E written \in BOOLEAN :
       IF written
         THEN /\ arquivos' = Append(arquivos, resultados)
              /\ pc' = "summary"
       ELSE /\ pc' = "raised"
            /\ UNCHANGED arquivos
  /\ UNCHANGED <<sbar, funcao, selecao, botoes, logLog, finalizados, _running, mainLocals, rowLocals, alterarLocals, remote, hist,
                 chamadas, conexoes>>

Count(st) == Cardinality({i \in 1..Len(resultados) : resultados[i].Status = st})

\* The final status with the partial-success branch lost.
StatusFinal_Mutante(sucessos, erros) ==
  IF erros = 0 THEN Status("Concluído com sucesso", "success")
  ELSE Status("Concluído com erros", "error")

\* The final status of main, from the outcome counts (lines 422-427).
StatusFinal(sucessos, erros) ==
  IF erros = 0 THEN Status("Concluído com sucesso", "success")
  ELSE IF sucessos > 0
    THEN Status("Concluído com " \o ToString(erros) \o " erros", "warning")
  ELSE Status("Concluído com erros", "error")

\* Lines 407-427: the counts, progress 100, the summary lines of the log (of
\* which the count of errors is kept) and the final status.
MainResumo ==
  /\ pc = "summary"
  /\ emit_progress(100)
  /\ emit_log(<<Linha("Erros: " \o ToString(Count("ERRO")), Len(statusLog))>>)
  /\ emit_status(StatusFinal(Count("SUCESSO"), Count("ERRO")).label,
                 StatusFinal(Count("SUCESSO"), Count("ERRO")).cat)
  /\ pc' = "main_returned"
  /\ UNCHANGED <<sbar, funcao, selecao, botoes, finalizados, _running, mainLocals, rowLocals, alterarLocals, remote, hist,
                 calls>>

(***************************************************************************)
(* alterar_data: one action per step of an attempt.  trace records the     *)
(* steps taken for the current record.                                     *)
(***************************************************************************)
\* The key formatted with :04d.
key_str_Mutante(linha_int) == Pad(linha_int \div 10, 4)

\* f"{linha_int // 10:4d}"
key_str(linha_int) ==
  LET t == ToString(linha_int \div 10)
      RECURSIVE Spaces(_)
      Spaces(k) == IF k <= 0 THEN "" ELSE " " \o Spaces(k - 1)
  IN Spaces(4 - Len(t)) \o t

\* Lines 207-221: limpar_tela_sap, then ME22N is opened and the status bar
\* classified.
AbrirTransacao ==
  /\ pc = "attempt"
  /\ tela' = ""
  /\ iniciadas' = iniciadas + 1
  /\ trace' = <<"tentativa", "limpar", "abrir">>
  /\ \/ /\ e' = com_error
        /\ pc' = "except"
        /\ UNCHANGED erro
     \/ \E bar \in SbarValues :
          /\ erro' = verificar_erro_sap(bar)
          /\ IF Truthy(verificar_erro_sap(bar))
               THEN /\ e' = "Erro ao abrir ME22N: " \o verificar_erro_sap(bar).val
                    /\ pc' = "except"
             ELSE /\ pc' = "search"
                  /\ UNCHANGED e
  /\ UNCHANGED <<sbar, funcao, selecao, botoes, logLog, finalizados, escritas, salvamentos, _running, mainLocals, rowLocals, tentativa, ret, cells,
                 progresso, estado, calls>>

\* BuscarPedido with the blocking status after the search ignored.
BuscarPedido_Mutante ==
  /\ pc = "search"
  /\ trace' = Append(trace, "buscar")
  /\ \/ /\ e' = com_error
        /\ pc' = "except"
        /\ UNCHANGED erro
     \/ \E bar \in SbarValues :
          /\ erro' = verificar_erro_sap(bar)
          /\ pc' = "select"
          /\ UNCHANGED e
  /\ UNCHANGED <<sbar, funcao, selecao, botoes, logLog, finalizados, iniciadas, escritas, salvamentos, _running, mainLocals,
                 rowLocals, tentativa, ret, cells, tela, progresso, estado, calls>>

\* Lines 223-232: the order is searched and the status bar classified.
BuscarPedido ==
  /\ pc = "search"
  /\ trace' = Append(trace, "buscar")
  /\ \/ /\ e' = com_error
        /\ pc' = "except"
        /\ UNCHANGED erro
     \/ \E bar \in SbarValues :
          /\ erro' = verificar_erro_sap(bar)
          /\ IF Truthy(verificar_erro_sap(bar))
               THEN /\ e' = "Pedido não encontrado: " \o verificar_erro_sap(bar).val
                    /\ pc' = "except"
             ELSE /\ pc' = "select"
                  /\ UNCHANGED e
  /\ UNCHANGED <<sbar, funcao, selecao, botoes, logLog, finalizados, iniciadas, escritas, salvamentos, _running, mainLocals, rowLocals, tentativa, ret, cells, tela,
                 progresso, estado, calls>>

\* Lines 234-245: the line selector is located (5 polls) and its key set;
\* the remote then shows the item's date cell.
SelecionarLinha ==
  /\ pc = "select"
  /\ trace' = Append(trace, "selecionar")
  /\ \E resp \in Respostas(TentativasObjeto) :
       IF esperar_objeto(resp, TentativasObjeto).found
         THEN /\ tela' = cells[<<pedido, key_str(linha)>>]
              /\ pc' = "read"
              /\ UNCHANGED e
       ELSE /\ e' = ObjetoNaoEncontrado(combo_id)
            /\ pc' = "except"
            /\ UNCHANGED tela
  /\ UNCHANGED <<sbar, funcao, selecao, botoes, logLog, finalizados, iniciadas, escritas, salvamentos, _running, mainLocals, rowLocals, tentativa, erro, ret, cells,
                 progresso, estado, calls>>

\* The idempotence test inverted.
JaAtualizado_Mutante(valor_atual, nova) == valor_atual # nova

\* Line 259: the idempotence test, on the trimmed cell text.
JaAtualizado(valor_atual, nova) == valor_atual = nova

\* Lines 247-262: the date cell is located (5 polls) and read; when it
\* already holds nova_data the function returns PULADO.
LerCampo ==
  /\ pc = "read"
  /\ trace' = Append(trace, "ler")
  /\ \E resp \in Respostas(TentativasObjeto) :
       IF esperar_objeto(resp, TentativasObjeto).found
         THEN LET valor_atual == Strip(tela)
              IN IF JaAtualizado(valor_atual, nova_data)
                   THEN /\ ret' = [status |-> "PULADO",
                                   mensagem |-> "Pedido " \o pedido \o ", linha "
                                     \o ToString(linha) \o " já estava com a data "
                                     \o nova_data]
                        /\ pc' = "returned"
                        /\ UNCHANGED e
                 ELSE /\ pc' = "write"
                      /\ UNCHANGED <<e, ret>>
       ELSE /\ e' = ObjetoNaoEncontrado(campo_data)
            /\ pc' = "except"
            /\ UNCHANGED ret
  /\ UNCHANGED <<sbar, funcao, selecao, botoes, logLog, finalizados, iniciadas, escritas, salvamentos, _running, mainLocals, rowLocals, tentativa, erro, remote,
                 progresso, estado, calls>>

\* The read-back test lost.
CampoAtualizado_Mutante(lido, nova) == TRUE

\* Line 268: the read-back test, on the trimmed cell text.
CampoAtualizado(lido, nova) == Strip(lido) = nova

\* Lines 264-269: the cell is assigned and read back; the remote takes the
\* new text or keeps the old one.
EscreverCampo ==
  /\ pc = "write"
  /\ trace' = trace \o <<"escrever", "verificar">>
  /\ escritas' = escritas + 1
  /\ \E accepted \in BOOLEAN :
       LET lido == IF accepted THEN nova_data ELSE tela
       IN /\ tela' = lido
          /\ IF ~CampoAtualizado(lido, nova_data)
               THEN /\ e' = "O campo de data não foi atualizado. Esperado: "
                              \o nova_data \o ", Atual: " \o Strip(lido)
                    /\ pc' = "except"
             ELSE /\ pc' = "save"
                  /\ UNCHANGED e
  /\ UNCHANGED <<sbar, funcao, selecao, botoes, logLog, finalizados, iniciadas, salvamentos, _running, mainLocals, rowLocals, tentativa, erro, ret, cells,
                 progresso, estado, calls>>

\* Lines 271-294: the save control is pressed (the remote commits the cell
\* on screen or not), the follow-up dialogs are dismissed best-effort and
\* the status bar is classified.
Salvar ==
  /\ pc = "save"
  /\ \/ /\ e' = com_error
        /\ pc' = "except"
        /\ UNCHANGED <<trace, salvamentos, cells, erro, ret>>
     \/ \E commit \in BOOLEAN, bar \in SbarValues :
          /\ trace' = trace \o <<"salvar", "status">>
          /\ salvamentos' = salvamentos + 1
          /\ cells' = IF commit
                        THEN [cells EXCEPT ![<<pedido, key_str(linha)>>] = tela]
                      ELSE cells
          /\ erro' = verificar_erro_sap(bar)
          /\ IF Truthy(verificar_erro_sap(bar))
               THEN /\ e' = "Erro após salvar: " \o verificar_erro_sap(bar).val
                    /\ pc' = "except"
                    /\ UNCHANGED ret
             ELSE /\ ret' = [status |-> "SUCESSO",
                             mensagem |-> "Pedido " \o pedido \o ", linha "
                               \o ToString(linha) \o " atualizado para " \o nova_data]
                  /\ pc' = "returned"
                  /\ UNCHANGED e
  /\ UNCHANGED <<sbar, funcao, selecao, botoes, logLog, finalizados, iniciadas, escritas, _running, mainLocals, rowLocals, tentativa, tela, progresso,
                 estado, calls>>

\* The strings verificar_erro_sap returns as blocking for SbarValues.
ErrosSap == {verificar_erro_sap(bar).val : bar \in {b \in SbarValues : Truthy(verificar_erro_sap(b))}}

\* The normalised dates of the input rows.
DatasNovas == {formatar_data(r.NovaData) : r \in Rows}

\* str(e) for every exception an attempt can raise.
TextosDeFalha ==
  {com_error, ObjetoNaoEncontrado(combo_id), ObjetoNaoEncontrado(campo_data)}
  \cup {"Erro ao abrir ME22N: " \o v : v \in ErrosSap}
  \cup {"Pedido não encontrado: " \o v : v \in ErrosSap}
  \cup {"Erro após salvar: " \o v : v \in ErrosSap}
  \cup {"O campo de data não foi atualizado. Esperado: " \o a \o ", Atual: " \o b :
          a \in DatasNovas, b \in CellTexts \cup DatasNovas}

\* f"{e}": the text of the exception being handled, taken from
\* TextosDeFalha (the characters of a string that is part of a state are
\* not reliable once the state has been queued, its identity is).
str(x) == CHOOSE t \in TextosDeFalha : t = x

\* The retry test off by one.
TentarNovamente_Mutante(t) == t <= max_tentativas

\* Line 301: whether another attempt follows a failed one.
TentarNovamente(t) == t < max_tentativas

\* The handler without the reset after the last attempt.
AposFalha_Mutante(t) ==
  IF TentarNovamente(t) THEN <<"except", "limpar", "esperar">>
  ELSE <<"except">>

\* Lines 297-303: what the handler does before the next attempt or the
\* return: limpar_tela_sap, and time.sleep(2) when another attempt follows.
AposFalha(t) ==
  IF TentarNovamente(t) THEN <<"except", "limpar", "esperar">>
  ELSE <<"except", "limpar">>

\* Lines 296-308: the handler: limpar_tela_sap, then the next attempt after
\* 2 seconds, or the ERRO outcome after the last one, whose message is
\* logged.  e is unbound when the handler is left.
TratarErro ==
  /\ pc = "except"
  /\ tela' = ""
  /\ trace' = trace \o AposFalha(tentativa)
  /\ IF TentarNovamente(tentativa)
       THEN /\ tentativa' = tentativa + 1
            /\ pc' = "attempt"
            /\ UNCHANGED <<ret, logLog>>
     ELSE /\ ret' = [status |-> "ERRO",
                     mensagem |-> "Pedido " \o pedido \o ", linha " \o ToString(linha)
                       \o " falhou após " \o ToString(max_tentativas)
                       \o " tentativas: " \o str(e)]
          /\ emit_log(<<Linha(ret'.mensagem, Len(statusLog))>>)
          /\ pc' = "returned"
          /\ UNCHANGED tentativa
  /\ e' = ""
  /\ UNCHANGED <<sbar, funcao, selecao, botoes, finalizados, iniciadas, escritas, salvamentos, _running, mainLocals, rowLocals, erro, cells, progresso, estado, calls>>

Next ==
  \/ iniciar_execucao
  \/ selecionar_arquivo
  \/ limpar_arquivo
  \/ cancelar_execucao
  \/ closeEvent
  \/ WorkerRun
  \/ WorkerAposMain
  \/ WorkerErroCritico
  \/ MainInicio
  \/ MainCarregar
  \/ MainConectar
  \/ MainProximo
  \/ MainRegistrar
  \/ MainSalvarLogs
  \/ MainResumo
  \/ AbrirTransacao
  \/ BuscarPedido
  \/ SelecionarLinha
  \/ LerCampo
  \/ EscreverCampo
  \/ Salvar
  \/ TratarErro

Spec == Init /\ [][Next]_vars

\* One step of the worker thread: WorkerThread.run, main and alterar_data.
PassoDoWorker ==
  \/ WorkerRun
  \/ WorkerAposMain
  \/ WorkerErroCritico
  \/ MainInicio
  \/ MainCarregar
  \/ MainConectar
  \/ MainProximo
  \/ MainRegistrar
  \/ MainSalvarLogs
  \/ MainResumo
  \/ AbrirTransacao
  \/ BuscarPedido
  \/ SelecionarLinha
  \/ LerCampo
  \/ EscreverCampo
  \/ Salvar
  \/ TratarErro

\* The steps of the worker thread but the head of main's loop and the
\* handler of alterar_data.
PassoLeve ==
  \/ WorkerRun
  \/ WorkerAposMain
  \/ WorkerErroCritico
  \/ MainInicio
  \/ MainCarregar
  \/ MainConectar
  \/ MainRegistrar
  \/ MainSalvarLogs
  \/ MainResumo
  \/ AbrirTransacao
  \/ BuscarPedido
  \/ SelecionarLinha
  \/ LerCampo
  \/ EscreverCampo
  \/ Salvar

\* The first run of a process.
PrimeiraExecucao == pc = "idle" /\ iniciar_execucao

\* The steps of a process up to the end of its first run.
NextJusto ==
  \/ PrimeiraExecucao
  \/ selecionar_arquivo
  \/ limpar_arquivo
  \/ cancelar_execucao
  \/ closeEvent
  \/ PassoDoWorker

\* A process started with no file in its configuration, the orders of the
\* remote at their old date.
InitJusto ==
  /\ Init
  /\ arquivo_selecionado = "None"
  /\ cells = [i \in Items |-> "10.03.2024"]

\* The first run of such a process, with the started thread scheduled until
\* run() returns and every call it makes (to the remote, to the file system)
\* returning or failing: weak fairness of the worker's steps.  The user's
\* actions are under no obligation.  MainProximo is enabled exactly when
\* pc = "loop" and TratarErro exactly when pc = "except", and both leave
\* that position, so their weak fairness is written []<>(pc # ...).
SpecJusto ==
  /\ InitJusto
  /\ [][NextJusto]_vars
  /\ WF_vars(PassoLeve)
  /\ []<>(pc # "loop")
  /\ []<>(pc # "except")

(***************************************************************************)
(* The classifier on its own: verificar_erro_sap applied to every status   *)
(* bar of BarInputs.                                                       *)
(***************************************************************************)
BarTypes == {"E", "A", "W", "I", "S", "", "e", "X"}

BarTexts ==
  { "Pedido inválido",
    "Documento sem alteração",
    "  Documento SEM ALTERAÇÃO  ",
    "A modificação não foi feita",
    "NÃO FOI FEITA nenhuma modificação ",
    "Sem Alteração",
    "sem alteracao",
    "não foi  feita",
    "nao foi feita",
    "Pedido gravado",
    "Data no passado",
    "" }

\* The ways the lookup fails: findById raises (BarMissing), or the object is
\* found and reading its Text raises after MessageType was read.
BarFalhas ==
  {BarMissing} \cup {[found |-> FALSE, MessageType |-> t, Text |-> ""] : t \in BarTypes}

BarInputs == {BarFound(t, x) : t \in BarTypes, x \in BarTexts} \cup BarFalhas

ClassifyInit ==
  /\ pc = "classify"
  /\ arquivo_selecionado = "None"
  /\ sbar \in BarInputs
  /\ cells = [i \in Items |-> "10.03.2024"]
  /\ RunInit

\* One call of verificar_erro_sap on the status bar sbar.
ClassificarBarra ==
  /\ pc = "classify"
  /\ erro' = verificar_erro_sap(sbar)
  /\ pc' = "classified"
  /\ UNCHANGED <<sbar, funcao, selecao, botoes, logLog, finalizados, _running, mainLocals, rowLocals, tentativa, e, ret, remote,
                 progresso, estado, hist, calls>>

NextClassify == ClassificarBarra

SpecClassify == ClassifyInit /\ [][NextClassify]_vars

(***************************************************************************)
(* esperar_objeto, conectar_sap and formatar_data on their own: each is    *)
(* applied once to arguments (and remote answers) drawn from the sets      *)
(* below.                                                                  *)
(***************************************************************************)
EsperarInputs ==
  {[k |-> "esperar", resp |-> r, tentativas |-> n] :
     r \in Respostas(MaxPolls), n \in 1..MaxPolls}

ConectarInputs == {[k |-> "conectar", resp |-> r] : r \in Respostas(4)}

\* Raw values of the NovaData column.
FormatarValores ==
  { NaN, Ts(15, 3, 2024), Ts(5, 3, 2024), Ts(29, 2, 2024),
    Str("15/03/2024"), Str("15.03.2024"), Str(" 15/03/2024 "),
    Str("5/3/2024"), Str("5.3.2024"), Str("05/03/2024"),
    Str("31/12/2024"), Str("31.12.2024"), Str("03/15/2024"),
    Str("2024-03-15"), Str("2024-02-30"), Str("30/02/2024"),
    Str("abc"), Str("") }

FormatarInputs == {[k |-> "formatar", valor |-> v] : v \in FormatarValores}

\* Line numbers of the Linha column.
LinhaInputs ==
  {[k |-> "chave", linha |-> n] :
     n \in {1, 9, 10, 20, 95, 100, 990, 1230, 99990, 99999, 100000, 1234567}}

\* The states of the remote UI limpar_tela_sap can meet.
LimparInputs ==
  {[k |-> "limpar", cancelar |-> c, navegar |-> n, popup |-> p] :
     c \in Respostas(PressoesCancelar), n \in {"ok", "okcd", "vkey"}, p \in BOOLEAN}

FuncoesInit ==
  /\ \/ pc = "esperar" /\ entrada \in EsperarInputs
     \/ pc = "conectar" /\ entrada \in ConectarInputs
     \/ pc = "formatar" /\ entrada \in FormatarInputs
     \/ pc = "limpar" /\ entrada \in LimparInputs
     \/ pc = "chave" /\ entrada \in LinhaInputs
  /\ cells \in [Items -> CellTexts]
  /\ sbar = BarMissing
  /\ _running = TRUE
  /\ df = <<>>
  /\ session = "None"
  /\ idx = 0
  /\ resultados = <<>>
  /\ pedido = ""
  /\ linha = 0
  /\ nova_data = ""
  /\ tentativa = 0
  /\ erro = None
  /\ e = ""
  /\ ret = NoRet
  /\ tela = "10.03.2024"
  /\ progressLog = <<>>
  /\ statusLog = <<>>
  /\ chamadas = <<>>
  /\ iniciadas = 0
  /\ trace = <<>>
  /\ escritas = 0
  /\ salvamentos = 0
  /\ conexoes = <<>>
  /\ logs_csv = <<>>
  /\ arquivos = <<>>
  /\ saida = SemChamada
  /\ arquivo_selecionado = "None"
  /\ ShellInit

\* One call of esperar_objeto(session, objeto_id, tentativas): the remote
\* answers its i-th findById as entrada.resp[i].
ChamarEsperarObjeto ==
  /\ pc = "esperar"
  /\ LET r == esperar_objeto(entrada.resp, entrada.tentativas)
     IN saida' = [k |-> "esperar", found |-> r.found, attempts |-> r.attempts,
                  passos |-> esperar_objeto_passos(entrada.resp,
                                                   entrada.tentativas, 0)]
  /\ pc' = "esperar_fim"
  /\ UNCHANGED <<sbar, entrada, selecao, botoes, logLog, finalizados, _running, mainLocals, rowLocals, alterarLocals,
                 remote, progresso, estado, hist, calls>>

\* One call of conectar_sap(): the remote answers its i-th step as
\* entrada.resp[i].
ChamarConectarSap ==
  /\ pc = "conectar"
  /\ LET r == conectar_sap(entrada.resp)
     IN /\ saida' = [k |-> "conectar", session |-> r.session, steps |-> r.steps]
        /\ session' = r.session
        /\ emit_status_seq(r.status)
        /\ IF r.session = "None"
             THEN emit_log(<<Linha(r.log, Len(statusLog) + 1)>>)
           ELSE UNCHANGED logLog
        /\ conexoes' = Append(conexoes, r.steps)
  /\ pc' = "conectar_fim"
  /\ UNCHANGED <<sbar, entrada, selecao, botoes, finalizados, _running, df, idx, resultados, rowLocals,
                 alterarLocals, remote, progresso, hist, chamadas, logs_csv,
                 arquivos>>

\* str.replace("/", ".")
RECURSIVE ComPontos(_)
ComPontos(s) ==
  IF Len(s) = 0 THEN s
  ELSE (IF Char(s, 1) = "/" THEN "." ELSE Char(s, 1)) \o ComPontos(SubSeq(s, 2, Len(s)))

\* formatar_data applied to a raw value, to its own result, and to the raw
\* string with dots for slashes.
ChamarFormatarData ==
  /\ pc = "formatar"
  /\ LET uma == formatar_data(entrada.valor)
     IN saida' = [k |-> "formatar",
                  uma |-> uma,
                  duas |-> formatar_data(Str(uma)),
                  pontos |-> formatar_data(Str(ComPontos(entrada.valor.s)))]
  /\ pc' = "formatar_fim"
  /\ UNCHANGED <<sbar, entrada, selecao, botoes, logLog, finalizados, _running, mainLocals, rowLocals, alterarLocals,
                 remote, progresso, estado, hist, calls>>

\* One call of limpar_tela_sap(session) against the remote UI entrada.
ChamarLimparTela ==
  /\ pc = "limpar"
  /\ LET r == limpar_tela_sap(entrada)
     IN saida' = [k |-> "limpar", passos |-> r.passos, propagou |-> r.propagou]
  /\ tela' = IF entrada.navegar = "ok" THEN "" ELSE tela
  /\ pc' = "limpar_fim"
  /\ UNCHANGED <<sbar, entrada, selecao, botoes, logLog, finalizados, _running, mainLocals, rowLocals, alterarLocals,
                 cells, progresso, estado, hist, calls>>

\* Lines 239-240: the key of the line selector for the line number
\* entrada.linha.
ChamarKeyStr ==
  /\ pc = "chave"
  /\ saida' = [k |-> "chave", key |-> key_str(entrada.linha)]
  /\ pc' = "chave_fim"
  /\ UNCHANGED <<sbar, entrada, selecao, botoes, logLog, finalizados, _running, mainLocals, rowLocals, alterarLocals,
                 remote, progresso, estado, hist, calls>>

NextFuncoes ==
  \/ ChamarEsperarObjeto
  \/ ChamarConectarSap
  \/ ChamarFormatarData
  \/ ChamarLimparTela
  \/ ChamarKeyStr

SpecFuncoes == FuncoesInit /\ [][NextFuncoes]_vars

(***************************************************************************)
(* Properties.                                                             *)
(***************************************************************************)
Range(q) == {q[i] : i \in 1..Len(q)}

StartsWith(t, prefix) ==
  Len(t) >= Len(prefix) /\ SubSeq(t, 1, Len(prefix)) = prefix

\* Sap.main is over: it returned or raised (the worker may have finished).
MainEnded == pc \in {"main_returned", "raised", "finished"}

\* The worker is inside alterar_data.
InAlterar == pc \in {"attempt", "search", "select", "read", "write", "save", "except"}

\* pd.read_excel returned the table.
Carregado == 10 \in Range(progressLog)

\* C1: for every table of N rows that was loaded, with the session
\* connected and no cancellation, when main is over alterar_data has been
\* called once per row in row order and salvar_logs_csv was handed a list of
\* exactly N outcomes, the i-th carrying the order id and the line number of
\* the i-th row.
C1_UmResultadoPorLinha ==
  (MainEnded /\ session # "None" /\ _running) =>
    /\ Len(chamadas) = Len(df)
    /\ \A i \in 1..Len(chamadas) :
         /\ chamadas[i][1] = df[i].Pedido
         /\ Num(chamadas[i][2]) = df[i].Linha
    /\ Len(logs_csv) = 1
    /\ Len(logs_csv[1]) = Len(df)
    /\ \A i \in 1..Len(logs_csv[1]) :
         /\ logs_csv[1][i].Pedido = df[i].Pedido
         /\ Num(logs_csv[1][i].Linha) = df[i].Linha

\* C2: alterar_data starts at most max_tentativas (2) attempts for a record;
\* it returns ERRO only after exactly max_tentativas attempts, and when the
\* last attempt (hence every attempt) failed it returns ERRO.
C2_LimiteDeTentativas ==
  /\ max_tentativas = 2
  /\ iniciadas <= max_tentativas
  /\ (pc = "returned" /\ ret.status = "ERRO") => iniciadas = max_tentativas
  /\ (pc = "returned" /\ "except" \in Range(trace)) =>
       (ret.status = "ERRO" /\ iniciadas = max_tentativas)

C2_Witness ==
  /\ pc = "returned"
  /\ ret.status = "ERRO"
  /\ iniciadas = 2
  /\ "except" \in Range(trace)

\* C3: an attempt that read the date cell goes on to write only if the
\* trimmed text differs from nova_data; when it is equal the attempt returns
\* PULADO having neither assigned the cell nor pressed save, and leaves the
\* remote item as it was; a row repeated right after a PULADO row never
\* writes or saves and never ends in SUCESSO.
C3_Idempotencia ==
  /\ pc = "write" => Strip(tela) # nova_data
  /\ (pc = "returned" /\ ret.status = "PULADO") =>
       /\ Strip(tela) = nova_data
       /\ trace = <<"tentativa", "limpar", "abrir", "buscar", "selecionar", "ler">>
       /\ cells[<<pedido, key_str(linha)>>] = tela
  /\ \A i \in 1..Len(resultados) :
       (i < Len(df) /\ df[i + 1] = df[i] /\ resultados[i].Status = "PULADO") =>
         /\ (i = idx /\ (InAlterar \/ pc = "returned")) =>
              (escritas = 0 /\ salvamentos = 0)
         /\ i < Len(resultados) => resultados[i + 1].Status \in {"PULADO", "ERRO"}

C3_Witness ==
  /\ Len(resultados) = 2
  /\ df[1] = df[2]
  /\ resultados[1].Status = "PULADO"
  /\ resultados[2].Status = "PULADO"

\* C4: once the table is loaded and the session connected, a failure while
\* processing a record never ends the batch: when main is over every row
\* has its outcome and the outcomes were handed to salvar_logs_csv.
C4_FalhaContida ==
  (MainEnded /\ session # "None") =>
    /\ Len(resultados) = Len(df)
    /\ logs_csv = <<resultados>>

\* C5: when conectar_sap returned no session, alterar_data was never
\* called, there is no outcome, salvar_logs_csv was never called, and the
\* status the run reports last has the error category.
C5_FalhaConexao ==
  (conexoes # <<>> /\ session = "None" /\ pc \in {"main_returned", "finished"}) =>
    /\ chamadas = <<>>
    /\ resultados = <<>>
    /\ logs_csv = <<>>
    /\ arquivos = <<>>
    /\ Last(statusLog).cat = "error"

\* C6: once the shell has requested cancellation of a running batch, no
\* step taken at a record boundary starts an alterar_data call, and the
\* outcomes appended so far are kept.
C6_Cancelamento ==
  [][(~_running /\ session # "None" /\ pc = "loop" /\ pc' # "aborted") =>
       (chamadas' = chamadas /\ resultados' = resultados)]_vars

\* C7: the values passed to emit_progress in a run never decrease and lie
\* in 0..100; a value emitted in the record loop lies in 25..89; when main
\* completes normally the last value is 100.
C7_Progresso ==
  /\ [](/\ \A i \in 1..Len(progressLog) : progressLog[i] \in 0..100
        /\ \A i \in 1..Len(progressLog) : \A j \in i..Len(progressLog) :
             progressLog[i] <= progressLog[j]
        /\ (pc \in {"main_returned", "finished"} /\ arquivos # <<>>) =>
             Last(progressLog) = 100)
  /\ [][(pc = "loop" /\ Len(progressLog') > Len(progressLog)) =>
          (/\ progressLog' = Append(progressLog, Last(progressLog'))
           /\ Last(progressLog') \in 25..89)]_vars

C7_Witness ==
  /\ pc = "main_returned"
  /\ Len(resultados) = 2
  /\ progressLog = <<5, 10, 15, 25, 25, 57, 95, 100>>

\* C8: main emits its overall status only after the outcomes were handed to
\* salvar_logs_csv and written, and the category follows from the outcome
\* counts alone: no ERRO gives success, an ERRO with a SUCESSO gives
\* warning, an ERRO without a SUCESSO gives error.
RotulosConcluido ==
  {"Concluído com sucesso", "Concluído com erros"}
  \cup {"Concluído com " \o ToString(n) \o " erros" : n \in 1..(MaxRows + 1)}

C8_StatusFinal ==
  /\ pc = "summary" => (logs_csv = <<resultados>> /\ arquivos = <<resultados>>)
  /\ pc # "finished" =>
       \A i \in 1..Len(statusLog) :
         statusLog[i].label \in RotulosConcluido =>
           (logs_csv = <<resultados>> /\ arquivos = <<resultados>>)
  /\ (pc = "main_returned" /\ logs_csv # <<>>) =>
       LET temErro == \E i \in 1..Len(resultados) : resultados[i].Status = "ERRO"
           temSucesso == \E i \in 1..Len(resultados) : resultados[i].Status = "SUCESSO"
       IN /\ Last(statusLog).label \in RotulosConcluido
          /\ Last(statusLog).cat = IF ~temErro THEN "success"
                                   ELSE IF temSucesso THEN "warning"
                                   ELSE "error"

C8_Witness ==
  /\ pc = "main_returned"
  /\ Len(resultados) = 2
  /\ resultados[1].Status = "SUCESSO"
  /\ resultados[2].Status = "ERRO"
  /\ Last(statusLog).cat = "warning"

\* C9: conectar_sap is called at most once per run and only after the table
\* was loaded; alterar_data is called only with the session of that call;
\* salvar_logs_csv is called only after the last row; when the file is
\* missing or unreadable main returns with the error status and without
\* having called conectar_sap.
C9_Fases ==
  /\ Len(conexoes) <= 1
  /\ conexoes # <<>> => Carregado
  /\ (chamadas # <<>> \/ InAlterar) => (session = "session" /\ Len(conexoes) = 1)
  /\ logs_csv # <<>> =>
       /\ session = "session"
       /\ idx = Len(df)
       /\ Len(chamadas) = Len(df)
       /\ ~InAlterar
  /\ (pc = "main_returned" /\ ~Carregado) =>
       (conexoes = <<>> /\ Last(statusLog).cat = "error")

C9_Witness ==
  /\ pc = "main_returned"
  /\ ~Carregado
  /\ Last(statusLog).label = "Erro no Excel"

\* The status-bar text contains one of the two "no change" phrases.
TemFrase(text) ==
  \/ Contains(Lower(text), "sem alteração")
  \/ Contains(Lower(text), "não foi feita")

\* C10 (amended): for a status bar that was read, type E or A gives the
\* blocking string "Erro SAP: " + trimmed text; type W gives None; type I
\* gives "Informação SAP: " + trimmed text exactly when the lower-cased text
\* contains "sem alteração" or "não foi feita", else None; any other type
\* gives None.
C10_Classificacao ==
  (pc = "classified" /\ sbar.found) =>
    /\ sbar.MessageType \in {"E", "A"} => erro = Some("Erro SAP: " \o Strip(sbar.Text))
    /\ sbar.MessageType = "W" => erro = None
    /\ sbar.MessageType = "I" =>
         /\ TemFrase(sbar.Text) => erro = Some("Informação SAP: " \o Strip(sbar.Text))
         /\ ~TemFrase(sbar.Text) => erro = None
    /\ sbar.MessageType \notin {"E", "A", "W", "I"} => erro = None

C10_Witness ==
  /\ pc = "classified"
  /\ sbar.MessageType = "I"
  /\ sbar.Text = "  Documento SEM ALTERAÇÃO  "
  /\ erro = Some("Informação SAP: Documento SEM ALTERAÇÃO")

\* C10 as stated: the blocking strings carry the status-bar text as read.
C10_TextoComoLido ==
  (pc = "classified" /\ sbar.found) =>
    /\ sbar.MessageType \in {"E", "A"} => erro = Some("Erro SAP: " \o sbar.Text)
    /\ sbar.MessageType = "W" => erro = None
    /\ sbar.MessageType = "I" =>
         /\ TemFrase(sbar.Text) => erro = Some("Informação SAP: " \o sbar.Text)
         /\ ~TemFrase(sbar.Text) => erro = None
    /\ sbar.MessageType \notin {"E", "A", "W", "I"} => erro = None

\* C21: whenever locating or reading the status bar fails,
\* verificar_erro_sap returns None, which the calling step reads as no
\* blocking message.
C21_FalhaEngolida ==
  (pc = "classified" /\ ~sbar.found) => (erro = None /\ ~Truthy(erro))

C21_Witness ==
  /\ pc = "classified"
  /\ sbar = [found |-> FALSE, MessageType |-> "E", Text |-> ""]
  /\ erro = None

\* The decimal digits of a natural number, most significant first.
RECURSIVE Digitos(_)
Digitos(n) ==
  LET d == CASE n % 10 = 0 -> "0" [] n % 10 = 1 -> "1" [] n % 10 = 2 -> "2"
             [] n % 10 = 3 -> "3" [] n % 10 = 4 -> "4" [] n % 10 = 5 -> "5"
             [] n % 10 = 6 -> "6" [] n % 10 = 7 -> "7" [] n % 10 = 8 -> "8"
             [] n % 10 = 9 -> "9"
  IN IF n < 10 THEN d ELSE Digitos(n \div 10) \o d

\* C24 (amended): the key set on the line selector ends with the decimal
\* representation of floor(line_number / 10), preceded by as many spaces as
\* bring it to 4 characters (none when it has 4 digits or more).
C24_ChaveComEspacos ==
  pc = "chave_fim" =>
    LET q == entrada.linha \div 10
        digitos == Digitos(q)
        key == saida.key
        n == Len(key) - Len(digitos)
    IN /\ Len(key) = IF Len(digitos) < 4 THEN 4 ELSE Len(digitos)
       /\ SubSeq(key, n + 1, Len(key)) = digitos
       /\ \A i \in 1..n : Char(key, i) = " "

C24_Witness ==
  /\ pc = "chave_fim"
  /\ entrada.linha = 20
  /\ saida.key = "   2"

\* C24 as stated: the key is the decimal representation of
\* floor(line_number / 10) in exactly 4 characters, zero-padded on the left.
C24_ChaveComZeros ==
  pc = "chave_fim" =>
    LET q == entrada.linha \div 10
        digitos == Digitos(q)
        key == saida.key
        n == Len(key) - Len(digitos)
    IN /\ Len(key) = 4
       /\ SubSeq(key, n + 1, Len(key)) = digitos
       /\ \A i \in 1..n : Char(key, i) = "0"

\* C25: within a run the outcome list changes only by the append of one
\* outcome, made when alterar_data has returned for the current record and
\* carrying that record's fields and the returned status and message; the
\* earlier outcomes stay as they were; the list has one outcome per record
\* processed so far.
C25_SomenteAcrescenta ==
  /\ [](pc \in {"loop", "finalize", "summary"} => Len(resultados) = idx)
  /\ []((InAlterar \/ pc = "returned") =>
          (Len(resultados) = idx /\ Len(chamadas) = idx + 1))
  /\ [][\/ resultados' = resultados
        \/ pc' \in {"thread", "aborted", "closed"}
        \/ /\ pc = "returned"
           /\ Len(resultados') = Len(resultados) + 1
           /\ \A i \in 1..Len(resultados) : resultados'[i] = resultados[i]
           /\ Last(resultados').Pedido = pedido
           /\ Last(resultados').Linha = linha
           /\ Last(resultados').Status = ret.status
           /\ Last(resultados').Mensagem = ret.mensagem]_vars

C25_Witness ==
  /\ pc = "summary"
  /\ Len(resultados) = 2
  /\ resultados[1].Status = "ERRO"
  /\ resultados[2].Status = "SUCESSO"

\* Number of occurrences of x in the sequence q.
Ocorrencias(q, x) == Cardinality({i \in 1..Len(q) : q[i] = x})

C11_EsperarObjeto ==
  /\ [](pc = "esperar_fim" =>
          LET resp == entrada.resp
              n == entrada.tentativas
              passos == saida.passos
              primeiro == {i \in 1..n : resp[i] /\ \A j \in 1..(i - 1) : ~resp[j]}
          IN /\ saida.attempts = Ocorrencias(passos, "findById")
             /\ saida.attempts \in 1..n
             /\ passos[1] = "findById"
             /\ \A i \in 1..Len(passos) :
                  /\ passos[i] = "return" => (i = Len(passos) /\ passos[i - 1] = "findById")
                  /\ passos[i] = "raise" => i = Len(passos)
                  /\ passos[i] = "sleep" => passos[i - 1] = "findById"
             /\ saida.found <=> Last(passos) = "return"
             /\ saida.found <=> primeiro # {}
             /\ saida.found => primeiro = {saida.attempts}
             /\ ~saida.found =>
                  (Last(passos) = "raise" /\ saida.attempts = n
                   /\ Ocorrencias(passos, "sleep") = n))
  /\ [][pc = "esperar" => (cells' = cells /\ tela' = tela)]_vars

C11_Witness ==
  /\ pc = "esperar_fim"
  /\ entrada.tentativas = 5
  /\ entrada.resp = <<FALSE, FALSE, TRUE, FALSE, TRUE>>
  /\ saida.found
  /\ saida.attempts = 3
  /\ saida.passos = <<"findById", "sleep", "findById", "sleep", "findById", "return">>

\* C12: conectar_sap attempts its steps in order, each at most once: the
\* steps attempted are those up to the first failing one, a failure gives no
\* session and the error status as the call's last status, and no step is
\* attempted after it.
C12_ConectarSemRetry ==
  pc = "conectar_fim" =>
    LET resp == entrada.resp
        falhas == {i \in 1..4 : ~resp[i]}
    IN /\ Len(conexoes) = 1
       /\ saida.steps \in 1..4
       /\ falhas = {} =>
            /\ saida.steps = 4
            /\ saida.session = "session"
            /\ statusLog = <<Status("Inicializando SAP", "running"),
                             Status("Conectado ao SAP", "success")>>
       /\ falhas # {} =>
            /\ saida.steps \in falhas
            /\ \A i \in falhas : saida.steps <= i
            /\ saida.session = "None"
            /\ statusLog = <<Status("Inicializando SAP", "running"),
                             Status("Erro na conexão SAP", "error")>>

C12_Witness ==
  /\ pc = "conectar_fim"
  /\ entrada.resp = <<TRUE, FALSE, TRUE, TRUE>>
  /\ saida.steps = 2
  /\ saida.session = "None"
  /\ Last(statusLog).cat = "error"

\* The steps of an attempt up to each step, as trace records them.
AteBuscar == <<"tentativa", "limpar", "abrir", "buscar">>
AteLer == AteBuscar \o <<"selecionar", "ler">>
AteVerificar == AteLer \o <<"escrever", "verificar">>
AteStatus == AteVerificar \o <<"salvar", "status">>

MensagemErro(texto) ==
  "Pedido " \o pedido \o ", linha " \o ToString(linha) \o " falhou após "
    \o ToString(max_tentativas) \o " tentativas: " \o texto

\* The failure texts of a blocking status right after the order search.
PedidoNaoEncontrado == {"Pedido não encontrado: " \o v : v \in ErrosSap}

\* C13: the exception being handled is always the one of the current
\* attempt, and the ERRO outcome is produced by the handler of attempt
\* max_tentativas with that attempt's failure text; a blocking status right
\* after the order search fails the attempt with "Pedido não encontrado: "
\* + the classifier's string before the line selector or the date cell is
\* touched, and the transaction never goes past a blocking status.
C13_MensagemDaUltimaFalha ==
  /\ [](/\ (pc \notin {"except", "aborted"}) => e = ""
        /\ (pc = "except") => e # ""
        /\ (pc \in {"select", "read", "write", "save"}) => ~Truthy(erro)
        /\ (/\ pc = "returned"
            /\ ret.status = "ERRO"
            /\ trace = AteBuscar \o <<"except", "limpar">>
            /\ Truthy(erro)) =>
             /\ ret.mensagem \in {MensagemErro(t) : t \in PedidoNaoEncontrado}
             /\ \A t \in PedidoNaoEncontrado : Contains(t, "Pedido não encontrado")
             /\ iniciadas = 2)
  /\ [][(pc = "except" /\ pc' = "returned") =>
          /\ tentativa = max_tentativas
          /\ ret'.status = "ERRO"
          /\ ret'.mensagem = MensagemErro(str(e))]_vars
  /\ [][(pc = "search" /\ pc' = "except" /\ Truthy(erro')) =>
          /\ e' \in PedidoNaoEncontrado
          /\ trace' = AteBuscar]_vars

C13_Witness ==
  /\ pc = "returned"
  /\ iniciadas = 2
  /\ trace = AteBuscar \o <<"except", "limpar">>
  /\ escritas = 0
  /\ ret = [status |-> "ERRO",
            mensagem |-> "Pedido 4500012345, linha 10 falhou após 2 tentativas: Pedido não encontrado: Erro SAP: Pedido inválido"]

\* The failure texts of an attempt: each is the remote not cooperating (a
\* call or a lookup failing, a blocking status, a cell text not read back).
FalhaDaRemota(texto) ==
  \/ texto = com_error
  \/ texto \in {ObjetoNaoEncontrado(combo_id), ObjetoNaoEncontrado(campo_data)}
  \/ texto \in {"Erro ao abrir ME22N: " \o v : v \in ErrosSap}
  \/ texto \in PedidoNaoEncontrado
  \/ texto \in {"Erro após salvar: " \o v : v \in ErrosSap}
  \/ /\ texto = "O campo de data não foi atualizado. Esperado: " \o nova_data
                   \o ", Atual: " \o Strip(tela)
     /\ Strip(tela) # nova_data

\* C14: an attempt fails only when the remote does not cooperate; as long
\* as it cooperates every step goes on to the next one, a cell text that
\* differs from nova_data is written once and saved once, and the attempt
\* returns SUCESSO; a SUCESSO of the first attempt has exactly one cell
\* write and one press of save; the outcome carries the normalised date
\* (15.03.2024 for every row of the input tables).
C14_RemotaCooperativa ==
  /\ [](/\ pc = "except" => FalhaDaRemota(e)
        /\ (pc = "returned" /\ ret.status = "SUCESSO" /\ iniciadas = 1) =>
             /\ trace = AteStatus
             /\ escritas = 1
             /\ salvamentos = 1
             /\ ret.mensagem = "Pedido " \o pedido \o ", linha " \o ToString(linha)
                                 \o " atualizado para 15.03.2024"
        /\ InAlterar => nova_data = "15.03.2024"
        /\ \A i \in 1..Len(resultados) : resultados[i].NovaData = "15.03.2024")
  /\ [][/\ (pc = "attempt" /\ pc' \notin {"attempt", "except", "aborted"}) => pc' = "search"
        /\ (pc = "search" /\ pc' \notin {"search", "except", "aborted"}) => pc' = "select"
        /\ (pc = "select" /\ pc' \notin {"select", "except", "aborted"}) => pc' = "read"
        /\ (pc = "read" /\ pc' \notin {"read", "except", "aborted"}) =>
             IF Strip(tela) # nova_data THEN pc' = "write"
             ELSE pc' = "returned" /\ ret'.status = "PULADO"
        /\ (pc = "write" /\ pc' \notin {"write", "except", "aborted"}) =>
             (pc' = "save" /\ escritas' = escritas + 1 /\ tela' = nova_data)
        /\ (pc = "save" /\ pc' \notin {"save", "except", "aborted"}) =>
             /\ pc' = "returned"
             /\ ret'.status = "SUCESSO"
             /\ salvamentos' = salvamentos + 1]_vars

C14_Witness ==
  /\ pc = "loop"
  /\ df = <<Row("4500012345", Num(10), Str("2024-03-15"))>>
  /\ cells[<<"4500012345", "   1">>] = "15.03.2024"
  /\ tela = "15.03.2024"
  /\ resultados = <<[Pedido |-> "4500012345", Linha |-> 10,
                     NovaData |-> "15.03.2024", Status |-> "SUCESSO",
                     Mensagem |-> "Pedido 4500012345, linha 10 atualizado para 15.03.2024"]>>

\* valor_str is a slash-separated date read day first.
DataBarra(s) ==
  LET t == Split3(Strip(s), "/")
  IN /\ t # <<>>
     /\ AllDigits(t[1]) /\ AllDigits(t[2]) /\ AllDigits(t[3])
     /\ ValidDate(ParseNat(t[1]), ParseNat(t[2]), ParseNat(t[3]))

\* The string has the shape dd.mm.yyyy.
DDMMYYYY(s) ==
  /\ Len(s) = 10
  /\ \A i \in {1, 2, 4, 5, 7, 8, 9, 10} : IsDigit(Char(s, i))
  /\ Char(s, 3) = "." /\ Char(s, 6) = "."

\* C15: formatar_data applied to its own result gives that result again,
\* and a slash-separated day-first date string and the same string with
\* dots for slashes are mapped to one and the same dd.mm.yyyy string.
C15_FormatarData ==
  pc = "formatar_fim" =>
    /\ saida.duas = saida.uma
    /\ (entrada.valor.k = "str" /\ DataBarra(entrada.valor.s)) =>
         /\ DDMMYYYY(saida.uma)
         /\ saida.pontos = saida.uma

\* C16: a worker is started only when none is running: a step that takes
\* the shell from any other state to a freshly started worker leaves a
\* state with no worker (never started, or finished).
C16_UmWorkerPorVez ==
  [][(pc' = "thread" /\ pc # "thread") => pc \in {"idle", "finished"}]_vars

C16_Witness ==
  /\ pc = "loop"
  /\ ~_running
  /\ Len(resultados) = 1
  /\ Len(df) = 2

\* The statuses main emits last: the count-based classification, or the
\* error status of an early return.
FinalDeMain ==
  RotulosConcluido \cup {"Arquivo não encontrado", "Erro no Excel", "Falha na conexão"}

\* C17: once main has emitted its final status, no later status of the run
\* has another category.
C17_StatusCongelado ==
  \A i \in 1..Len(statusLog) : \A j \in i..Len(statusLog) :
    statusLog[i].label \in FinalDeMain => statusLog[j].cat = statusLog[i].cat

\* C18: alterar_data returns SUCESSO only at the end of an attempt that
\* assigned the cell, read nova_data back, pressed save and classified the
\* status bar as not blocking, in this order; save is reached, and pressed,
\* only with the cell reading nova_data.
C18_SucessoVerificado ==
  /\ (pc = "returned" /\ ret.status = "SUCESSO") =>
       /\ trace = AteStatus
       /\ Strip(tela) = nova_data
       /\ ~Truthy(erro)
       /\ escritas >= 1
       /\ salvamentos >= 1
  /\ pc = "save" => (trace = AteVerificar /\ Strip(tela) = nova_data)
  /\ "salvar" \in Range(trace) =>
       (Len(trace) >= Len(AteStatus) /\ SubSeq(trace, 1, Len(AteStatus)) = AteStatus)
  /\ (trace # <<>> /\ Last(trace) = "status") => Strip(tela) = nova_data
  /\ salvamentos <= escritas

C18_Witness ==
  /\ pc = "returned"
  /\ ret.status = "SUCESSO"
  /\ tentativa = 2
  /\ escritas = 2
  /\ salvamentos = 2
  /\ trace = AteStatus

\* C19: in the steps of an attempt a failure is followed at once by the
\* reset, and by nothing else but the wait before the next attempt; the
\* wait and the next attempt follow exactly when fewer than max_tentativas
\* attempts were made, the ERRO return follows the reset of the last
\* attempt; the steps before the failure are the steps of the attempt up to
\* the failing one.
C19_ResetAposFalha ==
  /\ \A i \in 1..Len(trace) :
       trace[i] = "except" =>
         /\ Len(trace) > i
         /\ trace[i + 1] = "limpar"
         /\ \/ Len(trace) = i + 1
            \/ Len(trace) = i + 2 /\ trace[i + 2] = "esperar"
         /\ SubSeq(trace, 1, i - 1) = SubSeq(AteStatus, 1, i - 1)
  /\ pc = "except" => (trace # <<>> /\ trace = SubSeq(AteStatus, 1, Len(trace)))
  /\ (pc = "attempt" /\ iniciadas >= 1) =>
       /\ Last(trace) = "esperar"
       /\ iniciadas < max_tentativas
       /\ tentativa = iniciadas + 1
  /\ (pc = "returned" /\ "except" \in Range(trace)) =>
       /\ Last(trace) = "limpar"
       /\ iniciadas = max_tentativas
       /\ ret.status = "ERRO"
  /\ "esperar" \in Range(trace) => (pc \in {"attempt", "aborted"} /\ iniciadas < max_tentativas)

C19_Witness ==
  /\ pc = "attempt"
  /\ tentativa = 2
  /\ trace = AteVerificar \o <<"except", "limpar", "esperar">>

\* C20: when alterar_data returns PULADO, no attempt made for the record
\* assigned the date cell or pressed save.
C20_PuladoSemEscrita ==
  (pc = "returned" /\ ret.status = "PULADO") => (escritas = 0 /\ salvamentos = 0)

(***************************************************************************)
(* C23: every failure is logged before it shows in the status.             *)
(***************************************************************************)
\* The log lines that describe the failure a status label stands for.
DescricoesDaFalha(label) ==
  IF label = "Arquivo não encontrado"
    THEN {"Arquivo " \o a \o " não encontrado." : a \in {ArquivoA, ARQUIVO_PADRAO}}
  ELSE IF label = "Erro no Excel" THEN {"Erro ao ler Excel: " \o excel_error}
  ELSE IF label \in {"Erro na conexão SAP", "Falha na conexão"}
    THEN {"Não foi possível conectar ao SAP: " \o com_error,
          "Não foi possível conectar ao SAP. Encerrando."}
  ELSE IF label = "Erro crítico"
    THEN {"Erro crítico: ValueError", "Erro crítico: OSError"}
  ELSE {resultados[k].Mensagem :
          k \in {n \in 1..Len(resultados) : resultados[n].Status = "ERRO"}}

\* The positions of statusLog where the category becomes error or warning.
MudancasParaFalha ==
  {i \in 1..Len(statusLog) :
     /\ statusLog[i].cat \in {"error", "warning"}
     /\ (i = 1 \/ statusLog[i - 1].cat \notin {"error", "warning"})}

\* C23: on every failure path of a run (missing file, unreadable file,
\* failed connection, record ending in ERRO, critical error) a log line that
\* describes the failure was emitted before the status event that changes
\* the category to error or warning.
C23_LogAntesDoStatus ==
  \A i \in MudancasParaFalha :
    \E j \in 1..Len(logLog) :
      /\ logLog[j].antes < i
      /\ logLog[j].texto \in DescricoesDaFalha(statusLog[i].label)

\* C23 witness: a run whose records all ended in ERRO has shown its final
\* status, the first of the error category, with the message of a record in
\* the log.
C23_Witness ==
  /\ pc = "main_returned"
  /\ \E i \in MudancasParaFalha : statusLog[i].label = "Concluído com erros"
  /\ \E j \in 1..Len(logLog) : logLog[j].texto = resultados[1].Mensagem

(***************************************************************************)
(* C27: the file a run reads.                                              *)
(***************************************************************************)
\* C27: the file main reads is the one selected when the run was started
\* (the worker's arquivo_excel), or ARQUIVO_PADRAO when none was selected,
\* never a file selected for an earlier run.
C27_ArquivoDaExecucao ==
  arquivo_atual # "" =>
    arquivo_atual = (IF arquivo_excel # "None" THEN arquivo_excel ELSE ARQUIVO_PADRAO)

(***************************************************************************)
(* C28, C29: cancellation.                                                 *)
(***************************************************************************)
\* A step of cancelar_execucao with a worker running that the process
\* outlives: the stop request is made.
PedidoDeCancelamento == isRunning /\ _running /\ ~_running' /\ pc' = pc

\* C28: when the user cancels while a worker is running, the handler
\* completes: the worker is no longer running and the shell is in the ready
\* state (status "Cancelado" of category warning, progress 0, Start
\* enabled, Cancel disabled).
C28_CancelamentoCompleto ==
  [][PedidoDeCancelamento =>
       /\ ~isRunning'
       /\ status_text' = "Cancelado"
       /\ status_dot' = "warning"
       /\ progress_bar' = 0
       /\ start_btn'
       /\ ~cancel_btn']_vars

Encerrado == pc \in {"aborted", "closed"}

\* alterar_data, once called, returns an outcome.
RegistroTermina ==
  InAlterar ~> ((pc = "returned" /\ ret.status \in {"SUCESSO", "PULADO", "ERRO"})
                 \/ Encerrado)

\* The batch, once in its loop, reaches salvar_logs_csv.
LoteChegaAPersistencia == (pc = "loop") ~> (pc = "finalize" \/ Encerrado)

\* C26: with every call to the remote returning or failing, the processing
\* of a record terminates with an outcome SUCESSO, PULADO or ERRO, and the
\* batch reaches persistence.
C26_Terminacao == RegistroTermina /\ LoteChegaAPersistencia

(***************************************************************************)
(* C30: the finished event.                                                *)
(***************************************************************************)
\* C30: every started run emits the finished event, once and as its last
\* event, whether main returned, returned early or raised; the shell then
\* has Start enabled and Cancel disabled.
C30_FinalizaUmaVez ==
  /\ (pc = "thread") ~> (pc = "finished" \/ Encerrado)
  /\ [](isRunning => (finalizados = 0 /\ ~start_btn /\ cancel_btn))
  /\ [](pc = "finished" => (finalizados = 1 /\ start_btn /\ ~cancel_btn))
  /\ [][(pc = "finished" /\ pc' = "finished")
         => UNCHANGED <<progressLog, statusLog, logLog, finalizados>>]_vars

\* C30 witness: a run in which main raised has emitted finished after the
\* status of the critical error.
C30_Witness ==
  /\ pc = "finished"
  /\ finalizados = 1
  /\ statusLog # <<>>
  /\ statusLog[Len(statusLog)].label = "Erro crítico"
  /\ start_btn
  /\ ~cancel_btn
====
